---- MODULE Spec2Model ----
(***************************************************************************)
(* A model of two evennia contribs:                                        *)
(*   - contrib/base_systems/components/holder.py: ComponentProperty,       *)
(*     ComponentHandler and ComponentHolderMixin;                          *)
(*   - contrib/base_systems/ingame_reports/reports.py: the report hub      *)
(*     helper, the report commands and the manage command.                 *)
(* One host object is modelled.  Every public method is one action that    *)
(* runs the whole method, exceptions included: a raised exception ends the *)
(* method where the code raises it and keeps what was mutated before.      *)
(***************************************************************************)
EXTENDS Integers, Sequences, FiniteSets, TLC

VARIABLES
    class_components,   \* per typeclass: its own _class_components list, if any
    declared,           \* per typeclass: the ComponentProperty names its body wrote
    defining,           \* the typeclass whose body is being executed, or "done"
    typeclass,          \* the host's typeclass
    pc,                 \* the host's position in its lifecycle
    loaded_components,  \* ComponentHandler._loaded_components
    component_names,    \* host.attributes "component_names" (may be absent)
    tags,               \* host.tags: a set of <<key, category>>
    last,               \* the last handler/mixin call and what it did
    report_types,       \* reports._REPORT_TYPES, as configured by the settings
    scripts,            \* the script store: how many scripts carry each key
    messages,           \* the Msg store, in creation order
    cmd                 \* the last command invocation and what it did

compVars == <<class_components, declared, defining, typeclass, pc,
              loaded_components, component_names, tags, last>>

reportVars == <<report_types, scripts, messages, cmd>>

vars == <<compVars, reportVars>>

----------------------------------------------------------------------------
(* Bounds *)

\* longest persisted name sequence the handler calls may build
MaxNames == 3
\* most ComponentProperty declarations over all typeclass bodies
MaxDecl == 2
\* most Msg records the report commands may create
MaxMsgs == 1
\* most Msg records in the store of the runs that list ideas
MaxIdeas == 2

----------------------------------------------------------------------------
(* The component classes of the test fixture and the global class registry *)

Names == {"health", "mana", "ghost"}

\* the names components.get_component_class resolves; "ghost" is a component
\* class that is not (or no longer) in the registry
RegisteredNames == {"health", "mana"}

get_component_class(name) == name \in RegisteredNames

\* the tag fields each component class declares
tag_field_names(name) ==
    IF name = "mana" THEN {"element", "school"}
    ELSE IF name = "ghost" THEN {"aura"}
    ELSE {}

\* the class-level default of each tag field ("" is the empty default)
TagDefault(field) ==
    IF field = "element" THEN "fire"
    ELSE IF field = "aura" THEN "dark"
    ELSE ""

----------------------------------------------------------------------------
(* Values *)

\* A component instance: its class name, its identity and the tag fields that
\* were set on the instance.
Instance(name, id, fields) == [name |-> name, id |-> id, fields |-> fields]

\* Python's None where an instance is expected
NoInst == Instance("None", 0, {})

EmptyMap == [n \in {} |-> NoInst]

\* host.attributes.get("component_names") when the attribute was never set
Absent == [present |-> FALSE, val |-> <<>>]

Present(seq) == [present |-> TRUE, val |-> seq]

Keys(ld) == DOMAIN ld

Range(seq) == {seq[i] : i \in 1..Len(seq)}

Marker(name) == <<name, "components">>

\* an identity no instance held by the handler has
FreshId(ld) ==
    CHOOSE i \in 1..(Cardinality(Names) + 1) :
        /\ \A n \in DOMAIN ld : ld[n].id # i
        /\ \A j \in 1..(i - 1) : \E n \in DOMAIN ld : ld[n].id = j

\* an instance built by the caller or a factory: no tag field set yet
Fresh(ld, name) == Instance(name, FreshId(ld), {})

NoPre == [loaded |-> EmptyMap, names |-> Absent, tags |-> {}]

Snapshot == [loaded |-> loaded_components, names |-> component_names, tags |-> tags]

NoCall == [op |-> "none", name |-> "None", inst |-> NoInst, exc |-> "none",
           hooks |-> <<>>, made |-> <<>>, pre |-> NoPre]

\* a hook call and what the hook can observe of the handler when it runs
Hook(hook, inst, registered) == [hook |-> hook, id |-> inst.id, name |-> inst.name,
                                 registered |-> registered]

\* a factory call of a component class
Made(how, name) == [how |-> how, name |-> name]

----------------------------------------------------------------------------
(* ComponentProperty and the class-level declaration list *)

TypeClasses == {"Base", "SubA", "SubB"}

\* SubA and SubB both derive from Base
Parent(cls) == IF cls = "Base" THEN "none" ELSE "Base"

NoList == [own |-> FALSE, items |-> <<>>]

\* getattr(owner, "_class_components", None): the class whose list object the
\* attribute lookup finds along the MRO, or "none"
ListOwner(cc, owner) ==
    IF cc[owner].own THEN owner
    ELSE IF Parent(owner) # "none" /\ cc[Parent(owner)].own THEN Parent(owner)
    ELSE "none"

ClassList(cc, cls) ==
    IF ListOwner(cc, cls) = "none" THEN <<>> ELSE cc[ListOwner(cc, cls)].items

\* ComponentProperty.__set_name__(owner, name): appends to the list the lookup
\* found, and only makes a new list on owner when that lookup found none (or an
\* empty one)
set_name(cc, owner, component_name) ==
    LET o == ListOwner(cc, owner) IN
    IF o = "none" \/ cc[o].items = <<>>
    THEN [cc EXCEPT ![owner] = [own |-> TRUE, items |-> <<component_name>>]]
    ELSE [cc EXCEPT ![o].items = Append(@, component_name)]

\* the names a typeclass declares, its parent's first
DeclaredOn(cls) ==
    IF Parent(cls) = "none" THEN declared[cls]
    ELSE declared[Parent(cls)] \o declared[cls]

TotalDeclared ==
    Len(declared["Base"]) + Len(declared["SubA"]) + Len(declared["SubB"])

\* one ComponentProperty in the body of the typeclass being defined
Declare(component_name) ==
    /\ defining \in TypeClasses
    /\ TotalDeclared < MaxDecl
    /\ class_components' = set_name(class_components, defining, component_name)
    /\ declared' = [declared EXCEPT ![defining] = Append(@, component_name)]
    /\ UNCHANGED <<defining, typeclass, pc, loaded_components, component_names,
                   tags, last, reportVars>>

\* the class statement ends; the next typeclass (if any) is defined
EndClass ==
    /\ defining \in TypeClasses
    /\ defining' = (IF defining = "Base" THEN "SubA"
                    ELSE IF defining = "SubA" THEN "SubB" ELSE "done")
    /\ UNCHANGED <<class_components, declared, typeclass, pc, loaded_components,
                   component_names, tags, last, reportVars>>

\* an object of a defined typeclass is created (before its first save)
CreateObject(cls) ==
    /\ defining = "done"
    /\ pc = "none"
    /\ typeclass' = cls
    /\ pc' = "created"
    /\ UNCHANGED <<class_components, declared, defining, loaded_components,
                   component_names, tags, last, reportVars>>

----------------------------------------------------------------------------
(* ComponentHandler *)

\* a _set_component that rebuilds the map around the one component
set_component_alone(ld, component) == [n \in {component.name} |-> component]

\* ComponentHandler._set_component
set_component(ld, component) ==
    [n \in DOMAIN ld \cup {component.name} |->
        IF n = component.name THEN component ELSE ld[n]]

\* del self._loaded_components[name]
DelKey(ld, name) == [n \in DOMAIN ld \ {name} |-> ld[n]]

\* ComponentHandler.get
get(ld, name) == IF name \in DOMAIN ld THEN ld[name] ELSE NoInst

\* ComponentHandler.has
has(ld, name) == name \in DOMAIN ld

\* list.remove(x): drops the first occurrence only
RECURSIVE ListRemove(_, _)
ListRemove(seq, x) ==
    IF seq = <<>> THEN <<>>
    ELSE IF Head(seq) = x THEN Tail(seq)
    ELSE <<Head(seq)>> \o ListRemove(Tail(seq), x)

\* the tag fields with a non-empty class default, set on an instance
WithDefaults(component) ==
    [component EXCEPT !.fields =
        @ \cup {f \in tag_field_names(component.name) : TagDefault(f) # ""}]

\* host.tags.remove() without arguments: the tag handler is not part of the
\* handler's code; it either removes nothing or clears the host's tags
TagsRemoveNoArgs(tg) == {tg, {}}

Result(ld, nm, tg, exc, hooks) ==
    [loaded |-> ld, names |-> nm, tags |-> tg, exc |-> exc, hooks |-> hooks]

\* ComponentHandler.add(component)
AddResult(ld, nm, tg, component) ==
    LET ld1 == set_component(ld, component) IN
    IF ~nm.present
    THEN \* self.db_names is None: .append raises
         Result(ld1, nm, tg, "AttributeError", <<>>)
    ELSE Result(set_component(ld1, WithDefaults(component)),
                Present(Append(nm.val, component.name)),
                tg \cup {Marker(component.name)},
                "none",
                <<Hook("at_added", component, has(ld1, component.name))>>)

\* an add_default that registers the name before it looks the class up
AddDefaultResult_late_check(ld, nm, tg, name) ==
    IF ~get_component_class(name)
    THEN Result(ld,
                IF nm.present THEN Present(Append(nm.val, name)) ELSE nm,
                tg \cup {Marker(name)}, "ComponentDoesNotExist", <<>>)
    ELSE Result(set_component(ld, Fresh(ld, name)),
                IF nm.present THEN Present(Append(nm.val, name)) ELSE nm,
                tg \cup {Marker(name)}, "none",
                <<Hook("at_added", Fresh(ld, name), TRUE)>>)

\* ComponentHandler.add_default(name)
AddDefaultResult(ld, nm, tg, name) ==
    IF ~get_component_class(name)
    THEN Result(ld, nm, tg, "ComponentDoesNotExist", <<>>)
    ELSE LET new_component == Fresh(ld, name)
             ld1 == set_component(ld, new_component)
         IN  IF ~nm.present
             THEN Result(ld1, nm, tg, "AttributeError", <<>>)
             ELSE \* the loop reads type(component).__dict__ with component
                  \* the class: the first tag field raises KeyError
                  Result(ld1,
                         Present(Append(nm.val, name)),
                         tg \cup {Marker(name)},
                         IF tag_field_names(name) = {} THEN "none" ELSE "KeyError",
                         <<Hook("at_added", new_component, has(ld1, name))>>)

\* the registered branch of remove and remove_by_name: at_removed, then the
\* name leaves the persisted list, the marker leaves the host, the tag-field
\* loop runs (remove only; fields is empty for remove_by_name) and the entry
\* leaves the map
Unregister(ld, nm, tg, component, fields) ==
    LET name == component.name
        hooks == <<Hook("at_removed", component, has(ld, name))>>
    IN  IF ~nm.present
        THEN \* self.db_names is None: .remove raises
             {Result(ld, nm, tg, "AttributeError", hooks)}
        ELSE IF name \notin Range(nm.val)
        THEN \* list.remove(x) with x not in the list
             {Result(ld, nm, tg, "ValueError", hooks)}
        ELSE LET tg1 == tg \ {Marker(name)}
                 after == IF fields = {} THEN {tg1} ELSE TagsRemoveNoArgs(tg1)
             IN {Result(DelKey(ld, name), Present(ListRemove(nm.val, name)),
                        t, "none", hooks) : t \in after}

NotRegistered(ld, nm, tg) == Result(ld, nm, tg, "ComponentIsNotRegistered", <<>>)

\* a remove that calls at_removed before it looks the name up
RemoveResults_hook_first(ld, nm, tg, component) ==
    IF component.name \in DOMAIN ld
    THEN Unregister(ld, nm, tg, component, tag_field_names(component.name))
    ELSE {Result(ld, nm, tg, "ComponentIsNotRegistered",
                 <<Hook("at_removed", component, FALSE)>>)}

\* ComponentHandler.remove(component): the set of its possible outcomes
RemoveResults(ld, nm, tg, component) ==
    IF component.name \in DOMAIN ld
    THEN Unregister(ld, nm, tg, component, tag_field_names(component.name))
    ELSE {NotRegistered(ld, nm, tg)}

\* ComponentHandler.remove_by_name(name)
RemoveByNameResults(ld, nm, tg, name) ==
    LET instance == get(ld, name) IN
    IF instance = NoInst
    THEN {NotRegistered(ld, nm, tg)}
    ELSE Unregister(ld, nm, tg, instance, {})

\* an initialize loop that drops the names it cannot resolve
RECURSIVE InitializeFrom_skipping(_, _, _, _)
InitializeFrom_skipping(names, k, ld, made) ==
    IF k > Len(names) THEN [loaded |-> ld, exc |-> "none", made |-> made]
    ELSE IF get_component_class(names[k])
    THEN InitializeFrom_skipping(names, k + 1,
                                 [n \in DOMAIN ld \cup {names[k]} |->
                                     IF n = names[k]
                                     THEN Instance(names[k], FreshId(ld), {})
                                     ELSE ld[n]],
                                 Append(made, Made("load", names[k])))
    ELSE InitializeFrom_skipping(names, k + 1, ld, made)

\* the loop of ComponentHandler.initialize over names[k..]
RECURSIVE InitializeFrom(_, _, _, _)
InitializeFrom(names, k, ld, made) ==
    IF k > Len(names) THEN [loaded |-> ld, exc |-> "none", made |-> made]
    ELSE IF get_component_class(names[k])
    THEN InitializeFrom(names, k + 1, set_component(ld, Fresh(ld, names[k])),
                        Append(made, Made("load", names[k])))
    ELSE [loaded |-> ld, exc |-> "ComponentDoesNotExist", made |-> made]

\* ComponentHandler.initialize() on a handler whose map is ld
InitializeResult(ld, nm) ==
    IF ~nm.present \/ nm.val = <<>>
    THEN [loaded |-> ld, exc |-> "none", made |-> <<>>]
    ELSE InitializeFrom(nm.val, 1, ld, <<>>)

Apply(r, op, name, inst, made, pre) ==
    /\ loaded_components' = r.loaded
    /\ component_names' = r.names
    /\ tags' = r.tags
    /\ last' = [op |-> op, name |-> name, inst |-> inst, exc |-> r.exc,
                hooks |-> r.hooks, made |-> made, pre |-> pre]
    /\ UNCHANGED <<class_components, declared, defining, typeclass, pc, reportVars>>

Room == component_names.present => Len(component_names.val) < MaxNames

\* the component instances a caller can hand to add or remove: the ones the
\* handler holds and, for each class, one it does not hold
Components ==
    {loaded_components[n] : n \in DOMAIN loaded_components}
        \cup {Fresh(loaded_components, n) : n \in Names}

add(component) ==
    /\ pc = "live"
    /\ Room
    /\ LET r == AddResult(loaded_components, component_names, tags, component)
       IN Apply(r, "add", component.name, component, <<>>, Snapshot)

add_default(name) ==
    /\ pc = "live"
    /\ Room
    /\ LET r == AddDefaultResult(loaded_components, component_names, tags, name)
       IN Apply(r, "add_default", name, get(r.loaded, name),
                IF get_component_class(name)
                THEN <<Made("default_create", name)>> ELSE <<>>,
                Snapshot)

remove(component) ==
    /\ pc = "live"
    /\ \E r \in RemoveResults(loaded_components, component_names, tags, component) :
        Apply(r, "remove", component.name, component, <<>>, Snapshot)

remove_by_name(name) ==
    /\ pc = "live"
    /\ \E r \in RemoveByNameResults(loaded_components, component_names, tags, name) :
        Apply(r, "remove_by_name", name, get(loaded_components, name), <<>>,
              Snapshot)

----------------------------------------------------------------------------
(* ComponentHolderMixin *)

\* the loop of basetype_setup over the class's declarations items[k..]
RECURSIVE SetupFrom(_, _, _, _, _)
SetupFrom(items, k, ld, names, made) ==
    IF k > Len(items)
    THEN [loaded |-> ld, names |-> Present(names), exc |-> "none", made |-> made]
    ELSE IF ~get_component_class(items[k])
    THEN \* component_class is None: .create raises, the name list is never stored
         [loaded |-> ld, names |-> Absent, exc |-> "AttributeError", made |-> made]
    ELSE SetupFrom(items, k + 1,
                   set_component(ld, WithDefaults(Fresh(ld, items[k]))),
                   Append(names, items[k]),
                   Append(made, Made("create", items[k])))

\* ComponentHolderMixin.basetype_setup: once, at the object's first save
basetype_setup ==
    /\ pc = "created"
    /\ LET r == SetupFrom(ClassList(class_components, typeclass), 1, EmptyMap,
                          <<>>, <<>>)
       IN /\ loaded_components' = r.loaded
          /\ component_names' = r.names
          /\ last' = [NoCall EXCEPT !.op = "basetype_setup", !.exc = r.exc,
                                    !.made = r.made]
          /\ pc' = IF r.exc = "none" THEN "setup" ELSE "aborted"
    /\ UNCHANGED <<class_components, declared, defining, typeclass, tags, reportVars>>

\* ComponentHolderMixin.basetype_posthook_setup
basetype_posthook_setup ==
    /\ pc = "setup"
    /\ tags' = tags \cup {Marker(n) : n \in Range(component_names.val)}
    /\ last' = [NoCall EXCEPT !.op = "basetype_posthook_setup"]
    /\ pc' = "live"
    /\ UNCHANGED <<class_components, declared, defining, typeclass,
                   loaded_components, component_names, reportVars>>

\* ComponentHolderMixin.at_init: a new handler, then initialize().  It runs
\* whenever the stored object is loaded again.
at_init ==
    /\ pc \in {"stored", "live"}
    /\ LET r == InitializeResult(EmptyMap, component_names)
       IN /\ loaded_components' = r.loaded
          /\ last' = [NoCall EXCEPT !.op = "at_init", !.exc = r.exc, !.made = r.made,
                                    !.pre = Snapshot]
    /\ pc' = "live"
    /\ UNCHANGED <<class_components, declared, defining, typeclass,
                   component_names, tags, reportVars>>

----------------------------------------------------------------------------
(* The in-game reports: text *)

\* Text is a sequence of characters.
S_bug == <<"b", "u", "g">>
S_bugs == <<"b", "u", "g", "s">>
S_idea == <<"i", "d", "e", "a">>
S_ideas == <<"i", "d", "e", "a", "s">>
S_player == <<"p", "l", "a", "y", "e", "r">>
S_players == <<"p", "l", "a", "y", "e", "r", "s">>
S_report == <<"r", "e", "p", "o", "r", "t">>
S_reports == <<"r", "e", "p", "o", "r", "t", "s">>
S_manage == <<"m", "a", "n", "a", "g", "e">>

\* str.strip()
RECURSIVE LStrip(_)
LStrip(s) == IF s # <<>> /\ Head(s) = " " THEN LStrip(Tail(s)) ELSE s

RECURSIVE RStrip(_)
RStrip(s) ==
    IF s # <<>> /\ s[Len(s)] = " " THEN RStrip(SubSeq(s, 1, Len(s) - 1)) ELSE s

Strip(s) == RStrip(LStrip(s))

\* the index of the first ch in s, or 0
IndexOf(s, ch) ==
    IF \E i \in 1..Len(s) : s[i] = ch
    THEN CHOOSE i \in 1..Len(s) : s[i] = ch /\ \A j \in 1..(i - 1) : s[j] # ch
    ELSE 0

\* s[:-1]
DropLast(s) == SubSeq(s, 1, Len(s) - 1)

\* MuxCommand.parse: args is the stripped argument text; an "=" splits it
\* once into lhs and rhs, both stripped; without one rhs is None (which the
\* report commands only test for truth, as they would "")
MuxParse(raw) ==
    LET args == Strip(raw)
        i == IndexOf(args, "=")
    IN  [args |-> args,
         lhs |-> IF i = 0 THEN args ELSE Strip(SubSeq(args, 1, i - 1)),
         rhs |-> IF i = 0 THEN <<>> ELSE Strip(SubSeq(args, i + 1, Len(args)))]

----------------------------------------------------------------------------
(* The in-game reports: hubs *)

\* the default _REPORT_TYPES and a configured INGAME_REPORT_TYPES without
\* player reports
DefaultReportTypes == <<S_bugs, S_ideas, S_players>>

ReportTypeSettings == {DefaultReportTypes, <<S_bugs, S_ideas>>}

Accounts == {"alice", "bob"}

\* hub_key = f"{report_type}_reports"
hub_key(report_type) == report_type \o <<"_">> \o S_reports

\* None where a hub is expected
NoHub == <<>>

\* how many scripts search.search_script(key) finds
Count(sc, key) == IF key \in DOMAIN sc THEN sc[key] ELSE 0

\* the store after create.create_script(key=key) succeeded
WithScript(sc, key) ==
    [k \in DOMAIN sc \cup {key} |-> IF k = key THEN Count(sc, key) + 1 ELSE sc[k]]

\* a _get_report_hub that does not look before it creates
get_report_hub_no_lookup(sc, report_type) ==
    {[scripts |-> WithScript(sc, hub_key(report_type)),
      hub |-> hub_key(report_type), made |-> TRUE]}

\* _get_report_hub(report_type): the possible outcomes; create_script may
\* fail and give None
get_report_hub(sc, report_type) ==
    LET key == hub_key(report_type) IN
    IF Count(sc, key) > 0
    THEN {[scripts |-> sc, hub |-> key, made |-> FALSE]}
    ELSE {[scripts |-> WithScript(sc, key), hub |-> key, made |-> TRUE],
          [scripts |-> sc, hub |-> NoHub, made |-> FALSE]}

----------------------------------------------------------------------------
(* The in-game reports: commands *)

ReportCmds == {"CmdBug", "CmdReport", "CmdIdea"}

key(c) == IF c = "CmdBug" THEN S_bug ELSE IF c = "CmdReport" THEN S_report ELSE S_idea

\* report_type = None is the empty text here: both are false in `or`
report_type(c) == IF c = "CmdReport" THEN S_player ELSE <<>>

require_target(c) == c = "CmdReport"

report_locks(c) ==
    IF c = "CmdBug" THEN "read:pperm(Developer)"
    ELSE IF c = "CmdIdea" THEN "read:pperm(Builder)"
    ELSE "read:pperm(Admin)"

success_msg(c) ==
    IF c = "CmdIdea" THEN "Thank you for your suggestion!"
    ELSE "Your report has been filed."

\* the strings a command is invoked by: its key and aliases
CmdStrings(c) == IF c = "CmdIdea" THEN {S_idea, S_ideas} ELSE {key(c)}

\* ReportsCmdSet.at_cmdset_creation: the commands the configured types add
InCmdSet(types, c) ==
    IF c = "CmdBug" THEN S_bugs \in Range(types)
    ELSE IF c = "CmdIdea" THEN S_ideas \in Range(types)
    ELSE S_players \in Range(types)

\* self.report_type or self.key
Category(c) == IF report_type(c) # <<>> THEN report_type(c) ELSE key(c)

NoMenu == [started |-> FALSE, hub |-> NoHub]

NoCmd == [cmd |-> "none", cmdstring |-> <<>>, account |-> "none", raw |-> <<>>,
          hub |-> NoHub, hub_made |-> FALSE, ran_func |-> FALSE,
          report_message |-> <<>>, target_str |-> <<>>,
          outcome |-> "none", feedback |-> <<>>, searched |-> FALSE,
          found |-> {}, create_called |-> FALSE, created |-> <<>>,
          listed |-> <<>>, menu |-> NoMenu, pre |-> <<>>]

\* ReportCmdBase.parse
parse(raw) ==
    LET m == MuxParse(raw) IN
    IF m.rhs # <<>>
    THEN [args |-> m.args, report_message |-> m.rhs, target_str |-> m.lhs]
    ELSE [args |-> m.args, report_message |-> m.lhs, target_str |-> <<>>]

\* what target_search returned: the object found for the search term
Target(target_str) == [kind |-> "object", key |-> target_str]

Hub(hub) == [kind |-> "script", key |-> hub]

\* create.create_message(account, message, receivers=, locks=, tags=)
Msg(sender, message, receivers, locks, msgtags) ==
    [sender |-> sender, message |-> message, receivers |-> receivers,
     locks |-> locks, tags |-> msgtags]

\* what one run of func did: found is what target_search returned (empty for
\* None, also when no search was made)
Outcome(outcome, feedback, searched, found, create_called, created) ==
    [outcome |-> outcome, feedback |-> feedback, searched |-> searched,
     found |-> found, create_called |-> create_called, created |-> created,
     listed |-> <<>>]

\* a filing step that leaves the target out of the receivers
FileReport_hub_only(c, account, hub, p, target, searched) ==
    {Outcome("filed", <<success_msg(c)>>, searched, target, TRUE,
             <<Msg(account, p.report_message, {Hub(hub)}, report_locks(c),
                   {"report"})>>),
     Outcome("create_failed",
             <<"Something went wrong creating your report. Please try again later or contact staff directly.">>,
             searched, target, TRUE, <<>>)}

\* the tail of ReportCmdBase.func: receivers, create_report and its two ends;
\* target is empty for None
FileReport(c, account, hub, p, target, searched) ==
    LET receivers == {Hub(hub)} \cup target IN
    {Outcome("filed", <<success_msg(c)>>, searched, target, TRUE,
             <<Msg(account, p.report_message, receivers, report_locks(c),
                   {"report"})>>),
     Outcome("create_failed",
             <<"Something went wrong creating your report. Please try again later or contact staff directly.">>,
             searched, target, TRUE, <<>>)}

\* a func that files the report with the hub alone when the target is
\* missing or was not found
ReportFunc_without_target(c, account, hub, p) ==
    IF p.args = <<>>
    THEN {Outcome("no_message", <<"You must provide a message.">>, FALSE, {},
                  FALSE, <<>>)}
    ELSE IF p.target_str # <<>>
    THEN FileReport(c, account, hub, p, {}, TRUE)
            \cup FileReport(c, account, hub, p, {Target(p.target_str)}, TRUE)
    ELSE FileReport(c, account, hub, p, {}, FALSE)

\* ReportCmdBase.func: the possible outcomes; the target search may find
\* nothing and create_report may fail
ReportFunc(c, account, hub, p) ==
    IF p.args = <<>>
    THEN {Outcome("no_message", <<"You must provide a message.">>, FALSE, {},
                  FALSE, <<>>)}
    ELSE IF p.target_str # <<>>
    THEN {Outcome("target_not_found", <<>>, TRUE, {}, FALSE, <<>>)}
            \cup FileReport(c, account, hub, p, {Target(p.target_str)}, TRUE)
    ELSE IF require_target(c)
    THEN {Outcome("missing_target", <<"You must include a target.">>, FALSE, {},
                  FALSE, <<>>)}
    ELSE FileReport(c, account, hub, p, {}, FALSE)

\* a listing in creation order, the oldest first
RECURSIVE OpenIdeas_oldest_first(_, _, _)
OpenIdeas_oldest_first(msgs, account, hub) ==
    IF msgs = <<>> THEN <<>>
    ELSE LET m == msgs[Len(msgs)]
             rest == OpenIdeas_oldest_first(DropLast(msgs), account, hub)
         IN IF m.sender = account /\ Hub(hub) \in m.receivers
                                  /\ "closed" \notin m.tags
            THEN rest \o <<m>> ELSE rest

\* Msg.objects.search_message(sender=, receiver=).order_by("-db_date_created")
\* .exclude(db_tags__db_key="closed"): the newest first
RECURSIVE OpenIdeas(_, _, _)
OpenIdeas(msgs, account, hub) ==
    IF msgs = <<>> THEN <<>>
    ELSE LET m == msgs[Len(msgs)]
             rest == OpenIdeas(DropLast(msgs), account, hub)
         IN IF m.sender = account /\ Hub(hub) \in m.receivers
                                  /\ "closed" \notin m.tags
            THEN <<m>> \o rest ELSE rest

\* CmdIdea.func
IdeaFunc(c, cmdstring, account, hub, p, msgs) ==
    IF cmdstring = S_ideas
    THEN LET ideas == OpenIdeas(msgs, account, hub) IN
         IF ideas # <<>>
         THEN {[Outcome("listed", <<"Ideas you've submitted:">>, FALSE, {}, FALSE,
                        <<>>)
                   EXCEPT !.listed = ideas]}
         ELSE {Outcome("nothing_listed", <<"You have no open suggestions.">>,
                       FALSE, {}, FALSE, <<>>)}
    ELSE ReportFunc(c, account, hub, p)

Func(c, cmdstring, account, hub, p, msgs) ==
    IF c = "CmdIdea" THEN IdeaFunc(c, cmdstring, account, hub, p, msgs)
    ELSE ReportFunc(c, account, hub, p)

\* an at_pre_cmd that lets the command run whatever the hub lookup gave
at_pre_cmd_never_cancels(h) == FALSE

\* ReportCmdBase.at_pre_cmd, given what _get_report_hub returned: True
\* cancels the command (the parent's at_pre_cmd returns None)
at_pre_cmd(h) == h.hub = NoHub

\* the argument texts tried: nothing, a message, a lone separator, and a
\* target, separator and message
RawArgs == {<<>>, <<" ", "m">>, <<" ", "=">>, <<" ", "t", "=", "m">>}

\* One invocation of a report command, as the command handler runs it:
\* at_pre_cmd, and unless that cancels, parse and func.  A run that would
\* put more than `most` records in the store is left out.
RunCommand(c, cmdstring, account, raw, most) ==
    /\ InCmdSet(report_types, c)
    /\ cmdstring \in CmdStrings(c)
    /\ \E h \in get_report_hub(scripts, Category(c)) :
        /\ scripts' = h.scripts
        /\ IF at_pre_cmd(h)
           THEN \* the command is cancelled: neither parse nor func runs
                /\ cmd' = [NoCmd EXCEPT !.cmd = c, !.cmdstring = cmdstring,
                                        !.account = account, !.raw = raw,
                                        !.outcome = "cancelled",
                                        !.pre = messages]
                /\ messages' = messages
           ELSE LET p == parse(raw) IN
                \E o \in Func(c, cmdstring, account, h.hub, p, messages) :
                /\ Len(messages) + Len(o.created) <= most
                /\ cmd' = [cmd |-> c, cmdstring |-> cmdstring, account |-> account,
                           raw |-> raw, hub |-> h.hub, hub_made |-> h.made,
                           ran_func |-> TRUE,
                           report_message |-> p.report_message,
                           target_str |-> p.target_str,
                           outcome |-> o.outcome, feedback |-> o.feedback,
                           searched |-> o.searched, found |-> o.found,
                           create_called |-> o.create_called,
                           created |-> o.created, listed |-> o.listed,
                           menu |-> NoMenu, pre |-> messages]
                /\ messages' = messages \o o.created
    /\ UNCHANGED <<compVars, report_types>>

ReportCommand(c, cmdstring, account, raw) ==
    RunCommand(c, cmdstring, account, raw, MaxMsgs)

\* the idea command in the runs that list ideas
IdeaCommand(cmdstring, account, raw) ==
    RunCommand("CmdIdea", cmdstring, account, raw, MaxIdeas)

\* the management menu marks a stored report as closed (the menu is outside
\* reports.py; the commands only ever read the tag)
CloseReport(i) ==
    /\ i \in 1..Len(messages)
    /\ "closed" \notin messages[i].tags
    /\ messages' = [messages EXCEPT ![i].tags = @ \cup {"closed"}]
    /\ cmd' = [NoCmd EXCEPT !.cmd = "CloseReport", !.pre = messages]
    /\ UNCHANGED <<compVars, report_types, scripts>>

\* the strings CmdManageReports is invoked by: its key and one alias per type
ManageStrings(types) ==
    {<<S_manage, S_reports>>} \cup {<<S_manage, types[i]>> : i \in 1..Len(types)}

\* CmdManageReports.func; cmdstring is given as its words
ManageReports(cmdstring, account) ==
    /\ cmdstring \in ManageStrings(report_types)
    /\ LET word == cmdstring[Len(cmdstring)]
           rtype == IF word = S_reports THEN S_players ELSE word
           base == [NoCmd EXCEPT !.cmd = "CmdManageReports", !.account = account,
                                 !.cmdstring = cmdstring[1] \o <<" ">> \o cmdstring[2],
                                 !.ran_func = TRUE, !.pre = messages]
       IN IF rtype \notin Range(report_types)
          THEN /\ cmd' = [base EXCEPT !.outcome = "invalid_category",
                                      !.feedback = <<"is not a valid report category.">>]
               /\ scripts' = scripts
          ELSE \E h \in get_report_hub(scripts, DropLast(rtype)) :
               /\ scripts' = h.scripts
               /\ cmd' = [base EXCEPT
                            !.hub = h.hub, !.hub_made = h.made,
                            !.outcome = "menu",
                            !.feedback = IF h.hub = NoHub
                                         THEN <<"You cannot manage that.">> ELSE <<>>,
                            \* no return after the message: the menu starts
                            !.menu = [started |-> TRUE, hub |-> h.hub]]
    /\ UNCHANGED <<compVars, report_types, messages>>

----------------------------------------------------------------------------
(* Specifications of the component system *)

NoReports ==
    /\ report_types = <<>>
    /\ scripts = [k \in {} |-> 0]
    /\ messages = <<>>
    /\ cmd = NoCmd

NoHost ==
    /\ typeclass = "Base"
    /\ loaded_components = EmptyMap
    /\ component_names = Absent
    /\ tags = {}
    /\ last = NoCall

\* the typeclass bodies a handler run starts from: Base declares these
HandlerDecls == {<<>>, <<"mana">>}

\* The handler's runs start when the typeclasses are defined and the host is
\* either about to have its first save or is an object stored before its
\* typeclass held components (no component_names attribute).
InitHandler ==
    /\ defining = "done"
    /\ \E items \in HandlerDecls :
        /\ declared = [c \in TypeClasses |-> IF c = "Base" THEN items ELSE <<>>]
        /\ class_components =
              [c \in TypeClasses |->
                  IF c = "Base" /\ items # <<>>
                  THEN [own |-> TRUE, items |-> items] ELSE NoList]
        /\ pc \in (IF items = <<>> THEN {"created", "stored"} ELSE {"created"})
    /\ NoHost
    /\ NoReports

NextHandler ==
    \/ basetype_setup
    \/ basetype_posthook_setup
    \/ at_init
    \/ \E c \in Components : add(c)
    \/ \E n \in Names : add_default(n)
    \/ \E c \in Components : remove(c)
    \/ \E n \in Names : remove_by_name(n)

Spec == InitHandler /\ [][NextHandler]_vars

\* The lifecycle runs start before any typeclass body has run.
InitLifecycle ==
    /\ defining = "Base"
    /\ declared = [c \in TypeClasses |-> <<>>]
    /\ class_components = [c \in TypeClasses |-> NoList]
    /\ pc = "none"
    /\ NoHost
    /\ NoReports

NextLifecycle ==
    \/ \E n \in Names : Declare(n)
    \/ EndClass
    \/ \E c \in TypeClasses : CreateObject(c)
    \/ basetype_setup
    \/ basetype_posthook_setup
    \/ at_init

SpecLifecycle == InitLifecycle /\ [][NextLifecycle]_vars

----------------------------------------------------------------------------
(* Claims about the component handler, checked under Spec *)

HandlerOps == {"add", "add_default", "remove", "remove_by_name"}

PersistedSet == Range(component_names.val)

\* C1: after each add, remove and remove_by_name call the key set of the
\* in-memory map equals the set of distinct names of the persisted sequence
\* (stated for hosts whose persisted sequence exists).
C1_KeysEqualPersisted ==
    (component_names.present /\ last.op \in {"add", "remove", "remove_by_name"})
        => Keys(loaded_components) = PersistedSet

\* C2: remove and remove_by_name of a name that is not a key of the map raise
\* ComponentIsNotRegistered, leave the map, the persisted sequence and the
\* host's tags as they were and call no hook.
C2_UnregisteredRemoveRaises ==
    (last.op \in {"remove", "remove_by_name"} /\ ~has(last.pre.loaded, last.name))
        => /\ last.exc = "ComponentIsNotRegistered"
           /\ loaded_components = last.pre.loaded
           /\ component_names = last.pre.names
           /\ tags = last.pre.tags
           /\ last.hooks = <<>>

\* C2 witness: a remove of a component the handler does not hold was refused
\* while the handler held another one.
C2_Witness ==
    /\ last.op = "remove"
    /\ last.exc = "ComponentIsNotRegistered"
    /\ loaded_components # EmptyMap
    /\ component_names.present

\* C3: add_default of a name the class registry does not resolve raises
\* ComponentDoesNotExist and mutates nothing: no name appended, no marker
\* added, the map unchanged, no hook called.
C3_AddDefaultUnresolved ==
    (last.op = "add_default" /\ ~get_component_class(last.name))
        => /\ last.exc = "ComponentDoesNotExist"
           /\ loaded_components = last.pre.loaded
           /\ component_names = last.pre.names
           /\ tags = last.pre.tags
           /\ last.hooks = <<>>
           /\ last.made = <<>>

\* C3 witness: add_default("ghost") was refused on a host that holds components.
C3_Witness ==
    /\ last.op = "add_default"
    /\ last.name = "ghost"
    /\ last.exc = "ComponentDoesNotExist"
    /\ component_names.present
    /\ loaded_components # EmptyMap

\* C4: for a name that resolves, add_default(name) completes without error in
\* the state add(cls.default_create(host)) ends in: instance in the map with
\* its non-empty tag-field defaults set on it, name appended once, marker on
\* the host, at_added called (stated for hosts whose persisted sequence
\* exists).
C4_AddDefaultIsAdd ==
    (last.op = "add_default" /\ get_component_class(last.name)
                             /\ last.pre.names.present)
        => LET r == AddResult(last.pre.loaded, last.pre.names, last.pre.tags,
                              Fresh(last.pre.loaded, last.name))
           IN /\ last.exc = "none"
              /\ loaded_components = r.loaded
              /\ component_names = r.names
              /\ tags = r.tags
              /\ last.hooks = r.hooks

\* C5: from a state in which a name is not registered, add(c) followed by
\* remove(c) or remove_by_name(c.name) restores the map, the persisted
\* sequence and the host's marker for the name, and at_removed runs while the
\* entry is still in the map (stated for hosts whose persisted sequence
\* exists and names only classes the registry resolves).
C5_RemoveUndoesAdd ==
    [][ ( /\ last.op = "add"
          /\ last.exc = "none"
          /\ \A n \in Range(last.pre.names.val) : get_component_class(n)
          /\ ~has(last.pre.loaded, last.name)
          /\ last'.op \in {"remove", "remove_by_name"}
          /\ last'.name = last.name
          /\ last'.inst.id = last.inst.id )
        => ( /\ last'.exc = "none"
             /\ loaded_components' = last.pre.loaded
             /\ component_names' = last.pre.names
             /\ (Marker(last.name) \in tags') = (Marker(last.name) \in last.pre.tags)
             /\ last'.hooks = <<Hook("at_removed", last.inst, TRUE)>> ) ]_vars

\* C6: initialize() on a new handler either returns with the map's key set
\* equal to the distinct persisted names (none when the sequence is empty or
\* absent), every entry an instance of the class of its key, or, when some
\* persisted name does not resolve, raises ComponentDoesNotExist.
C6_InitializeOutcomes ==
    (last.op = "at_init")
        => IF \A n \in PersistedSet : get_component_class(n)
           THEN /\ last.exc = "none"
                /\ Keys(loaded_components) = PersistedSet
                /\ \A n \in Keys(loaded_components) : loaded_components[n].name = n
           ELSE last.exc = "ComponentDoesNotExist"

\* C6 witness: initialize() raised on a persisted name that follows a
\* resolvable one.
C6_Witness ==
    /\ last.op = "at_init"
    /\ last.exc = "ComponentDoesNotExist"
    /\ Len(component_names.val) >= 2
    /\ get_component_class(component_names.val[1])

\* C7: after add(c), get(c.name) is c and has(c.name) holds; a call on another
\* name leaves every registered name bound to the same instance; get of a
\* name that was removed, or that no call has set, is None and has is false.
C7_GetAfterAdd ==
    /\ (last.op = "add")
          => /\ has(loaded_components, last.name)
             /\ get(loaded_components, last.name).id = last.inst.id
             /\ get(loaded_components, last.name).name = last.inst.name
    /\ (last.op \in HandlerOps)
          => \A n \in Names \ {last.name} :
                /\ get(loaded_components, n) = get(last.pre.loaded, n)
                /\ has(loaded_components, n) = has(last.pre.loaded, n)
    /\ (last.op \in {"remove", "remove_by_name"} /\ last.exc = "none")
          => /\ get(loaded_components, last.name) = NoInst
             /\ ~has(loaded_components, last.name)
    /\ (last.op = "at_init")
          => \A n \in Names \ PersistedSet :
                /\ get(loaded_components, n) = NoInst
                /\ ~has(loaded_components, n)

\* C7 witness: an add on a handler that holds another component, which it
\* still holds.
C7_Witness ==
    /\ last.op = "add"
    /\ last.exc = "none"
    /\ get(loaded_components, last.name).id = last.inst.id
    /\ \E n \in Names \ {last.name} :
          /\ has(last.pre.loaded, n)
          /\ get(loaded_components, n) = last.pre.loaded[n]

\* C16: once remove or remove_by_name has succeeded for a name and no add
\* of that name follows, the component does not come back: after a reload (a
\* new handler, then initialize()) has(name) is false, whatever the earlier
\* calls were, a repeated add of the name included (stated for the reload
\* that directly follows the remove).
C16_RemovedStaysRemoved ==
    [][ ( /\ last.op \in {"remove", "remove_by_name"}
          /\ last.exc = "none"
          /\ last'.op = "at_init" )
        => ~has(loaded_components', last.name) ]_vars

\* C18: removing one component leaves every other registered component of
\* the host untouched: after remove(c) each other name that was registered is
\* still a key of the map, bound to the same instance, still in the persisted
\* sequence, and the host still carries its 'components' marker, also when c
\* declares tag fields.
C18_RemoveLeavesOthers ==
    (last.op = "remove" /\ last.exc = "none")
        => \A n \in Keys(last.pre.loaded) \ {last.name} :
              /\ has(loaded_components, n)
              /\ get(loaded_components, n) = last.pre.loaded[n]
              /\ (n \in Range(last.pre.names.val)) => (n \in PersistedSet)
              /\ (Marker(n) \in last.pre.tags) => (Marker(n) \in tags)

----------------------------------------------------------------------------
(* Claims about the declarations and the host's lifecycle, checked under
   SpecLifecycle *)

\* C8: basetype_setup builds the components the host's typeclass declares
\* through create, once: after it the map's keys are the declared names and
\* the persisted sequence lists them in declaration order; every later
\* at_init rebuilds the same key set through load only, calls no create and
\* leaves the persisted sequence alone (stated for typeclasses that declare
\* no name twice).
C8_DeclaredBuiltOnce ==
    LET decl == DeclaredOn(typeclass)
        all == declared["Base"] \o declared["SubA"] \o declared["SubB"]
    IN
    (Cardinality(Range(all)) = Len(all)) =>
    /\ (last.op = "basetype_setup" /\ last.exc = "none")
          => /\ Keys(loaded_components) = Range(decl)
             /\ component_names = Present(decl)
             /\ last.made = [i \in 1..Len(decl) |-> Made("create", decl[i])]
    /\ (last.op = "at_init")
          => /\ Keys(loaded_components) = Range(decl)
             /\ \A i \in 1..Len(last.made) : last.made[i].how = "load"
             /\ component_names = last.pre.names

\* C17: a ComponentProperty in the body of a subclass extends only that
\* subclass's declaration list: the lists its parent and its sibling see are
\* unchanged, and its own is what it was (the parent's declarations
\* included) with the new name appended.
C17_SubclassDeclarationLocal ==
    [][ (defining \in {"SubA", "SubB"} /\ declared' # declared)
        => /\ \A c \in TypeClasses \ {defining} :
                 ClassList(class_components', c) = ClassList(class_components, c)
           /\ ClassList(class_components', defining)
                 = ClassList(class_components, defining)
                      \o SubSeq(declared'[defining], Len(declared'[defining]),
                                Len(declared'[defining])) ]_vars

----------------------------------------------------------------------------
(* Specification of the report commands: one command runs at a time *)

InitReports ==
    /\ defining = "Base"
    /\ declared = [c \in TypeClasses |-> <<>>]
    /\ class_components = [c \in TypeClasses |-> NoList]
    /\ pc = "none"
    /\ NoHost
    /\ report_types \in ReportTypeSettings
    /\ scripts = [k \in {} |-> 0]
    /\ messages = <<>>
    /\ cmd = NoCmd

NextReports ==
    \/ \E c \in ReportCmds, a \in Accounts, raw \in RawArgs :
          \E cs \in CmdStrings(c) : ReportCommand(c, cs, a, raw)
    \/ \E a \in Accounts :
          \E cs \in ManageStrings(report_types) : ManageReports(cs, a)

SpecReports == InitReports /\ [][NextReports]_vars

\* The runs that list ideas start from an empty store or from one that holds
\* a bug report, filed earlier by one of the accounts to the bug hub.
BugReport(account) ==
    Msg(account, <<"m">>, {Hub(hub_key(S_bug))}, report_locks("CmdBug"), {"report"})

InitIdeas ==
    /\ defining = "Base"
    /\ declared = [c \in TypeClasses |-> <<>>]
    /\ class_components = [c \in TypeClasses |-> NoList]
    /\ pc = "none"
    /\ NoHost
    /\ report_types = DefaultReportTypes
    /\ \/ /\ scripts = [k \in {} |-> 0]
          /\ messages = <<>>
       \/ \E a \in Accounts :
             /\ scripts = WithScript([k \in {} |-> 0], hub_key(S_bug))
             /\ messages = <<BugReport(a)>>
    /\ cmd = NoCmd

NextIdeas ==
    \/ \E a \in Accounts, raw \in RawArgs :
          \E cs \in CmdStrings("CmdIdea") : IdeaCommand(cs, a, raw)
    \/ \E i \in 1..MaxIdeas : CloseReport(i)

SpecIdeas == InitIdeas /\ [][NextIdeas]_vars

----------------------------------------------------------------------------
(* Claims about the report commands, checked under SpecReports *)

HubKeys == {hub_key(t) : t \in {S_bug, S_idea, S_player}}

\* C9: with one command running at a time, whatever report and manage
\* commands ran, every category has at most one hub script, stored under
\* '<category>_reports', and the hub a command resolved is that one script.
C9_OneHubPerCategory ==
    /\ DOMAIN scripts \subseteq HubKeys
    /\ \A k \in DOMAIN scripts : scripts[k] <= 1
    /\ (cmd.hub # NoHub) => Count(scripts, cmd.hub) = 1

\* C9 witness: a manage command resolved, without creating it, the hub an
\* earlier command had created for the category.
C9_Witness ==
    /\ cmd.cmd = "CmdManageReports"
    /\ cmd.hub = hub_key(S_bug)
    /\ ~cmd.hub_made
    /\ Count(scripts, cmd.hub) = 1
    /\ messages # <<>>

\* C10: a report command whose parsed message is empty is aborted with an
\* error message to the actor and never calls create_report (the listing
\* alias 'ideas' aside).
C10_EmptyMessageAborts ==
    (cmd.cmd \in ReportCmds /\ cmd.ran_func /\ cmd.cmdstring # S_ideas
                            /\ cmd.report_message = <<>>)
        => /\ ~cmd.create_called
           /\ cmd.created = <<>>
           /\ cmd.outcome \in {"no_message", "missing_target"}
           /\ Len(cmd.feedback) = 1

\* a report command whose func ran the filing steps (not the 'ideas' listing)
\* and got past the check of the argument text
ReachedTargetStep ==
    /\ cmd.cmd \in ReportCmds
    /\ cmd.ran_func
    /\ cmd.cmdstring # S_ideas
    /\ parse(cmd.raw).args # <<>>

C12_MessageFields ==
    (cmd.cmd \in ReportCmds /\ cmd.created # <<>>)
        => /\ Len(cmd.created) = 1
           /\ messages = cmd.pre \o cmd.created
           /\ cmd.hub = hub_key(Category(cmd.cmd))
           /\ cmd.found = (IF cmd.target_str # <<>>
                           THEN {Target(cmd.target_str)} ELSE {})
           /\ LET m == cmd.created[1] IN
                /\ m.sender = cmd.account
                /\ m.message = cmd.report_message
                /\ m.locks = report_locks(cmd.cmd)
                /\ m.tags = {"report"}
                /\ m.receivers = {Hub(cmd.hub)} \cup cmd.found

\* C12 witness: a player report that names a target the search resolved, so
\* the Message went to the player hub and to that target.
C12_Witness ==
    /\ cmd.cmd = "CmdReport"
    /\ cmd.account = "bob"
    /\ cmd.created # <<>>
    /\ cmd.created[1].receivers = {Hub(hub_key(S_player)), Target(<<"t">>)}
    /\ messages = cmd.created

\* C13: when the hub of a report command's category can be neither found nor
\* created, at_pre_cmd cancels the command and its body never runs: no parse
\* result is acted on, no target search happens, no Message is created;
\* conversely the body only runs with self.hub set to a resolved hub.
C13_NoHubCancels ==
    (cmd.cmd \in ReportCmds)
        => /\ (cmd.hub = NoHub)
                 => /\ cmd.outcome = "cancelled"
                    /\ Count(scripts, hub_key(Category(cmd.cmd))) = 0
                    /\ ~cmd.ran_func
                    /\ cmd.report_message = <<>> /\ cmd.target_str = <<>>
                    /\ ~cmd.searched
                    /\ ~cmd.create_called
                    /\ cmd.created = <<>>
                    /\ cmd.feedback = <<>>
                    /\ messages = cmd.pre
           /\ cmd.ran_func
                 => /\ cmd.hub = hub_key(Category(cmd.cmd))
                    /\ Count(scripts, cmd.hub) >= 1
           /\ (cmd.outcome = "cancelled") = (cmd.hub = NoHub)

\* C13 witness: a bug report with a target and a message was cancelled for
\* want of a hub, on a store that held a report of another category.
C13_Witness ==
    /\ cmd.cmd = "CmdBug"
    /\ cmd.raw = <<" ", "t", "=", "m">>
    /\ cmd.outcome = "cancelled"
    /\ cmd.hub = NoHub
    /\ cmd.pre # <<>>
    /\ messages = cmd.pre

\* the category word of the manage command's cmdstring, 'reports' read as
\* 'players'
ManagedType ==
    LET word == SubSeq(cmd.cmdstring, Len(S_manage) + 2, Len(cmd.cmdstring))
    IN IF word = S_reports THEN S_players ELSE word

\* C15: the management command starts the menu only after the category of
\* the invoked alias was found in the configured category list and the hub
\* was resolved: the menu is never started with an invalid category and
\* never with an absent hub.
C15_MenuAfterValidation ==
    (cmd.cmd = "CmdManageReports" /\ cmd.menu.started)
        => /\ ManagedType \in Range(report_types)
           /\ cmd.menu.hub # NoHub
           /\ cmd.menu.hub = hub_key(DropLast(ManagedType))
           /\ Count(scripts, cmd.menu.hub) = 1

----------------------------------------------------------------------------
(* The claim about the listing of ideas, checked under SpecIdeas *)

\* the positions in the store of the invoking account's open ideas
OpenPositions ==
    {i \in 1..Len(messages) :
        /\ messages[i].sender = cmd.account
        /\ Hub(hub_key(S_idea)) \in messages[i].receivers
        /\ "closed" \notin messages[i].tags}

\* C14: the idea command invoked as 'ideas' only lists: whatever arguments
\* come with it, it creates no Message and calls neither the target search
\* nor create_report; it lists exactly the messages the invoking account sent
\* to the idea hub that are not tagged 'closed', the most recent first, and
\* shows 'You have no open suggestions.' exactly when there is none.
C14_IdeasOnlyLists ==
    (cmd.cmd = "CmdIdea" /\ cmd.cmdstring = S_ideas /\ cmd.ran_func)
        => /\ ~cmd.create_called
           /\ ~cmd.searched
           /\ cmd.created = <<>>
           /\ messages = cmd.pre
           /\ Len(cmd.listed) = Cardinality(OpenPositions)
           /\ \E f \in [1..Len(cmd.listed) -> OpenPositions] :
                 /\ \A k \in 1..Len(cmd.listed) : cmd.listed[k] = messages[f[k]]
                 /\ \A j, k \in 1..Len(cmd.listed) : j < k => f[j] > f[k]
           /\ (cmd.feedback = <<"You have no open suggestions.">>)
                 = (OpenPositions = {})
           /\ (cmd.feedback = <<"Ideas you've submitted:">>)
                 = (OpenPositions # {})

\* C14 witness: 'ideas', given a target and a message as arguments, listed
\* the account's two open ideas, which differ, and left the store alone.
C14_Witness ==
    /\ cmd.cmd = "CmdIdea"
    /\ cmd.cmdstring = S_ideas
    /\ cmd.raw = <<" ", "t", "=", "m">>
    /\ Len(cmd.listed) = 2
    /\ cmd.listed[1] # cmd.listed[2]
    /\ cmd.listed[1] = messages[2]
    /\ messages = cmd.pre

====
